---- MODULE Spec2Model ----
(***************************************************************************)
(* Model of the transaction processor: the State store (state.rs), the     *)
(* StoredTransaction / Account types (domain.rs) and                       *)
(* TransactionProcessor::process with its five adjustment arms             *)
(* (processor.rs), driven record by record as main.rs drives it.           *)
(*                                                                         *)
(* Amounts are exact decimals (rust_decimal); they are modelled as         *)
(* integers counting the smallest unit in use, on which Decimal's +, - and *)
(* < are exact.  The bounded amounts stay far from Decimal's 96-bit range. *)
(*                                                                         *)
(* process() returns Err only for TransactionIsNotValid; every other error *)
(* of a record is logged and swallowed (processor.rs:24-38).  The model    *)
(* keeps, as the result of a call, the error returned or logged.           *)
(* UnknownError arises only from a poisoned RwLock, which needs a panic    *)
(* while a lock is held; the sequential run has none, so no operation of   *)
(* the store yields it here.                                               *)
(***************************************************************************)
EXTENDS Integers, FiniteSets, Sequences, TLC

\* Bounds of the model: the clients, the transaction ids and the amounts fed in.
NumClients == 2
NumTx == 2
MaxAmount == 2

ClientId == 1..NumClients
TransactionId == 1..NumTx
\* Amounts the input may carry: one negative value, zero, and positive values.
Amount == (0 - 1)..MaxAmount

\* The threads that call process() on the one shared TransactionProcessor, and
\* the number of calls they make between them.
NumThreads == 2
MaxCalls == 3
ThreadId == 1..NumThreads

VARIABLES
    accounts,       \* State.accounts: HashMap<ClientId, Account>, a function on the stored keys
    transactions,   \* State.transactions: HashMap<TransactionId, StoredTransaction>
    last,           \* the record handed to the latest process() call and the error it logged
    before,         \* the two maps as they were when the latest process() call began
    calls,          \* per thread: how far its process() call has got, and its locals
    expected,       \* per client: the sum of the adjustments of total that calls have stored
    overlapped,     \* two calls have held a read, unwritten account of one client at once
    started         \* the number of process() calls begun by the threads

vars == <<accounts, transactions, last, before, calls, expected, overlapped, started>>

\* The variables that only the interleaved calls of SpecConcurrent change.
interleaving == <<calls, expected, overlapped, started>>

----------------------------------------------------------------------------
\* domain.rs: StoredTransaction and Account

Deposit(id, client_id, amount, under_dispute) ==
    [kind |-> "Deposit", id |-> id, client_id |-> client_id, amount |-> amount,
     under_dispute |-> under_dispute]

Withdrawal(id, client_id, amount) ==
    [kind |-> "Withdrawal", id |-> id, client_id |-> client_id, amount |-> amount]

Dispute(id, client_id) == [kind |-> "Dispute", id |-> id, client_id |-> client_id]

Resolve(id, client_id) == [kind |-> "Resolve", id |-> id, client_id |-> client_id]

Chargeback(id, client_id) == [kind |-> "Chargeback", id |-> id, client_id |-> client_id]

\* A validity test that also refuses a zero amount (<= for <).
is_not_valid_rejects_zero(tx) ==
    CASE tx.kind = "Deposit" -> tx.amount <= 0
      [] tx.kind = "Withdrawal" -> tx.amount <= 0
      [] OTHER -> FALSE

is_not_valid(tx) ==
    CASE tx.kind = "Deposit" -> tx.amount < 0
      [] tx.kind = "Withdrawal" -> tx.amount < 0
      [] OTHER -> FALSE

set_under_dispute(tx, is_under_dispute) ==
    IF tx.kind = "Deposit" THEN [tx EXCEPT !.under_dispute = is_under_dispute] ELSE tx

Account_new(client) ==
    [client |-> client, available |-> 0, held |-> 0, total |-> 0, locked |-> FALSE]

----------------------------------------------------------------------------
\* state.rs: the State store.  Each operation takes the map it reads and
\* returns what the call returns and, for a writer, the map it leaves.

Ok == "Ok"

get_transaction(txs, id) ==
    IF id \in DOMAIN txs
      THEN [result |-> Ok, tx |-> txs[id]]
      ELSE [result |-> "TransactionNotFound", tx |-> [kind |-> "None", id |-> id]]

\* An insertion that overwrites: HashMap::insert without the contains_key test.
insert_transaction_overwrites(txs, transaction) ==
    IF transaction.kind \in {"Deposit", "Withdrawal"}
      THEN [result |-> Ok, tx |-> transaction,
            transactions |-> (transaction.id :> transaction) @@ txs]
      ELSE [result |-> Ok, tx |-> transaction, transactions |-> txs]

insert_transaction(txs, transaction) ==
    IF transaction.kind \in {"Deposit", "Withdrawal"}
      THEN IF transaction.id \notin DOMAIN txs
             THEN [result |-> Ok, tx |-> transaction,
                   transactions |-> (transaction.id :> transaction) @@ txs]
             ELSE [result |-> "TransactionAlreadyExists", tx |-> transaction,
                   transactions |-> txs]
      ELSE [result |-> Ok, tx |-> transaction, transactions |-> txs]

under_dispute(txs, id, flag) ==
    IF id \in DOMAIN txs
      THEN [txs EXCEPT ![id] = set_under_dispute(txs[id], flag)]
      ELSE txs

get_account(accts, id) ==
    IF id \in DOMAIN accts THEN accts[id] ELSE Account_new(id)

\* An upsert that inserts a new account and never replaces a stored one.
upsert_account_keeps_existing(accts, account) ==
    IF account.client \in DOMAIN accts
      THEN accts
      ELSE (account.client :> account) @@ accts

upsert_account(accts, account) == (account.client :> account) @@ accts

----------------------------------------------------------------------------
\* processor.rs: adjust_account, one definition per match arm.  Each arm
\* returns the Result, the account as the arm leaves it and the transaction
\* map as the arm leaves it (an arm writes it only through under_dispute).

Adjusted(result, account, txs) ==
    [result |-> result, account |-> account, transactions |-> txs]

\* A deposit that credits available and forgets total.
adjust_deposit_forgets_total(account, transaction, txs) ==
    Adjusted(Ok, [account EXCEPT !.available = @ + transaction.amount], txs)

adjust_deposit(account, transaction, txs) ==
    Adjusted(Ok,
             [account EXCEPT !.available = @ + transaction.amount,
                             !.total = @ + transaction.amount],
             txs)

\* A withdrawal that refuses to empty the account (<= for <).
adjust_withdrawal_refuses_exact(account, transaction, txs) ==
    IF account.available <= transaction.amount
      THEN Adjusted("AccountInsufficientAvailableFunds", account, txs)
      ELSE Adjusted(Ok,
                    [account EXCEPT !.available = @ - transaction.amount,
                                    !.total = @ - transaction.amount],
                    txs)

\* A withdrawal that debits available and forgets total.
adjust_withdrawal_forgets_total(account, transaction, txs) ==
    IF account.available < transaction.amount
      THEN Adjusted("AccountInsufficientAvailableFunds", account, txs)
      ELSE Adjusted(Ok, [account EXCEPT !.available = @ - transaction.amount], txs)

\* A withdrawal that debits the account whatever its available funds.
adjust_withdrawal_no_funds_check(account, transaction, txs) ==
    Adjusted(Ok,
             [account EXCEPT !.available = @ - transaction.amount,
                             !.total = @ - transaction.amount],
             txs)

adjust_withdrawal(account, transaction, txs) ==
    IF account.available < transaction.amount
      THEN Adjusted("AccountInsufficientAvailableFunds", account, txs)
      ELSE Adjusted(Ok,
                    [account EXCEPT !.available = @ - transaction.amount,
                                    !.total = @ - transaction.amount],
                    txs)

\* A dispute without the check for a dispute already open.
adjust_dispute_no_flag_check(account, transaction, txs) ==
    LET got == get_transaction(txs, transaction.id)
        tx == got.tx
    IN  IF got.result = Ok
          THEN IF tx.kind = "Deposit"
                 THEN IF account.client # tx.client_id
                        THEN Adjusted("TransactionAccessDenied", account, txs)
                      ELSE IF account.available < tx.amount
                        THEN Adjusted("AccountInsufficientAvailableFunds", account, txs)
                      ELSE Adjusted(Ok,
                                    [account EXCEPT !.available = @ - tx.amount,
                                                    !.held = @ + tx.amount],
                                    under_dispute(txs, tx.id, TRUE))
                 ELSE Adjusted("TransactionIsNotDisputable", account, txs)
          ELSE Adjusted(Ok, account, txs)

\* A dispute that passes TransactionNotFound on instead of ignoring it.
adjust_dispute_not_found_fails(account, transaction, txs) ==
    LET got == get_transaction(txs, transaction.id)
        tx == got.tx
    IN  IF got.result = Ok
          THEN IF tx.kind = "Deposit"
                 THEN IF account.client # tx.client_id
                        THEN Adjusted("TransactionAccessDenied", account, txs)
                      ELSE IF tx.under_dispute
                        THEN Adjusted("TransactionAlreadyUnderDispute", account, txs)
                      ELSE IF account.available < tx.amount
                        THEN Adjusted("AccountInsufficientAvailableFunds", account, txs)
                      ELSE Adjusted(Ok,
                                    [account EXCEPT !.available = @ - tx.amount,
                                                    !.held = @ + tx.amount],
                                    under_dispute(txs, tx.id, TRUE))
                 ELSE Adjusted("TransactionIsNotDisputable", account, txs)
          ELSE Adjusted(got.result, account, txs)

\* A dispute that sets the flag before it tests the available funds.
adjust_dispute_flags_before_funds_check(account, transaction, txs) ==
    LET got == get_transaction(txs, transaction.id)
        tx == got.tx
    IN  IF got.result = Ok
          THEN IF tx.kind = "Deposit"
                 THEN IF account.client # tx.client_id
                        THEN Adjusted("TransactionAccessDenied", account, txs)
                      ELSE IF tx.under_dispute
                        THEN Adjusted("TransactionAlreadyUnderDispute", account, txs)
                      ELSE IF account.available < tx.amount
                        THEN Adjusted("AccountInsufficientAvailableFunds", account,
                                      under_dispute(txs, tx.id, TRUE))
                      ELSE Adjusted(Ok,
                                    [account EXCEPT !.available = @ - tx.amount,
                                                    !.held = @ + tx.amount],
                                    under_dispute(txs, tx.id, TRUE))
                 ELSE Adjusted("TransactionIsNotDisputable", account, txs)
          ELSE Adjusted(Ok, account, txs)

\* A dispute that debits available and forgets to credit held.
adjust_dispute_forgets_held(account, transaction, txs) ==
    LET got == get_transaction(txs, transaction.id)
        tx == got.tx
    IN  IF got.result = Ok
          THEN IF tx.kind = "Deposit"
                 THEN IF account.client # tx.client_id
                        THEN Adjusted("TransactionAccessDenied", account, txs)
                      ELSE IF tx.under_dispute
                        THEN Adjusted("TransactionAlreadyUnderDispute", account, txs)
                      ELSE IF account.available < tx.amount
                        THEN Adjusted("AccountInsufficientAvailableFunds", account, txs)
                      ELSE Adjusted(Ok,
                                    [account EXCEPT !.available = @ - tx.amount],
                                    under_dispute(txs, tx.id, TRUE))
                 ELSE Adjusted("TransactionIsNotDisputable", account, txs)
          ELSE Adjusted(Ok, account, txs)

adjust_dispute(account, transaction, txs) ==
    LET got == get_transaction(txs, transaction.id)
        tx == got.tx
    IN  IF got.result = Ok
          THEN IF tx.kind = "Deposit"
                 THEN IF account.client # tx.client_id
                        THEN Adjusted("TransactionAccessDenied", account, txs)
                      ELSE IF tx.under_dispute
                        THEN Adjusted("TransactionAlreadyUnderDispute", account, txs)
                      ELSE IF account.available < tx.amount
                        THEN Adjusted("AccountInsufficientAvailableFunds", account, txs)
                      ELSE Adjusted(Ok,
                                    [account EXCEPT !.available = @ - tx.amount,
                                                    !.held = @ + tx.amount],
                                    under_dispute(txs, tx.id, TRUE))
                 ELSE Adjusted("TransactionIsNotDisputable", account, txs)
          ELSE Adjusted(Ok, account, txs)

\* A resolve that gives the funds back and leaves the dispute flag set.
adjust_resolve_keeps_flag(account, transaction, txs) ==
    LET got == get_transaction(txs, transaction.id)
        tx == got.tx
    IN  IF got.result = Ok
          THEN IF tx.kind = "Deposit"
                 THEN IF account.client # tx.client_id
                        THEN Adjusted("TransactionAccessDenied", account, txs)
                      ELSE IF ~tx.under_dispute
                        THEN Adjusted(Ok, account, txs)
                      ELSE IF account.held < tx.amount
                        THEN Adjusted("AccountInsufficientHeldFunds", account, txs)
                      ELSE Adjusted(Ok,
                                    [account EXCEPT !.available = @ + tx.amount,
                                                    !.held = @ - tx.amount],
                                    txs)
                 ELSE Adjusted("TransactionIsNotDisputable", account, txs)
          ELSE Adjusted(Ok, account, txs)

\* A resolve without the test that the deposit belongs to the acting client.
adjust_resolve_no_owner_check(account, transaction, txs) ==
    LET got == get_transaction(txs, transaction.id)
        tx == got.tx
    IN  IF got.result = Ok
          THEN IF tx.kind = "Deposit"
                 THEN IF ~tx.under_dispute
                        THEN Adjusted(Ok, account, txs)
                      ELSE IF account.held < tx.amount
                        THEN Adjusted("AccountInsufficientHeldFunds", account, txs)
                      ELSE Adjusted(Ok,
                                    [account EXCEPT !.available = @ + tx.amount,
                                                    !.held = @ - tx.amount],
                                    under_dispute(txs, tx.id, FALSE))
                 ELSE Adjusted("TransactionIsNotDisputable", account, txs)
          ELSE Adjusted(Ok, account, txs)

\* A resolve that takes a stored Withdrawal for an id it does not know.
adjust_resolve_ignores_withdrawals(account, transaction, txs) ==
    LET got == get_transaction(txs, transaction.id)
        tx == got.tx
    IN  IF got.result = Ok
          THEN IF tx.kind = "Deposit"
                 THEN IF account.client # tx.client_id
                        THEN Adjusted("TransactionAccessDenied", account, txs)
                      ELSE IF ~tx.under_dispute
                        THEN Adjusted(Ok, account, txs)
                      ELSE IF account.held < tx.amount
                        THEN Adjusted("AccountInsufficientHeldFunds", account, txs)
                      ELSE Adjusted(Ok,
                                    [account EXCEPT !.available = @ + tx.amount,
                                                    !.held = @ - tx.amount],
                                    under_dispute(txs, tx.id, FALSE))
                 ELSE Adjusted(Ok, account, txs)
          ELSE Adjusted(Ok, account, txs)

adjust_resolve(account, transaction, txs) ==
    LET got == get_transaction(txs, transaction.id)
        tx == got.tx
    IN  IF got.result = Ok
          THEN IF tx.kind = "Deposit"
                 THEN IF account.client # tx.client_id
                        THEN Adjusted("TransactionAccessDenied", account, txs)
                      ELSE IF ~tx.under_dispute
                        THEN Adjusted(Ok, account, txs)
                      ELSE IF account.held < tx.amount
                        THEN Adjusted("AccountInsufficientHeldFunds", account, txs)
                      ELSE Adjusted(Ok,
                                    [account EXCEPT !.available = @ + tx.amount,
                                                    !.held = @ - tx.amount],
                                    under_dispute(txs, tx.id, FALSE))
                 ELSE Adjusted("TransactionIsNotDisputable", account, txs)
          ELSE Adjusted(Ok, account, txs)

\* A chargeback that takes the amount from available instead of held.
adjust_chargeback_debits_available(account, transaction, txs) ==
    LET got == get_transaction(txs, transaction.id)
        tx == got.tx
    IN  IF got.result = Ok
          THEN IF tx.kind = "Deposit"
                 THEN IF account.client # tx.client_id
                        THEN Adjusted("TransactionAccessDenied", account, txs)
                      ELSE IF ~tx.under_dispute
                        THEN Adjusted(Ok, account, txs)
                      ELSE IF account.held < tx.amount
                        THEN Adjusted("AccountInsufficientAvailableFunds", account, txs)
                      ELSE Adjusted(Ok,
                                    [account EXCEPT !.available = @ - tx.amount,
                                                    !.total = @ - tx.amount,
                                                    !.locked = TRUE],
                                    under_dispute(txs, tx.id, FALSE))
                 ELSE Adjusted("TransactionIsNotDisputable", account, txs)
          ELSE Adjusted(Ok, account, txs)

\* A chargeback without the test that the deposit belongs to the acting client.
adjust_chargeback_no_owner_check(account, transaction, txs) ==
    LET got == get_transaction(txs, transaction.id)
        tx == got.tx
    IN  IF got.result = Ok
          THEN IF tx.kind = "Deposit"
                 THEN IF ~tx.under_dispute
                        THEN Adjusted(Ok, account, txs)
                      ELSE IF account.held < tx.amount
                        THEN Adjusted("AccountInsufficientAvailableFunds", account, txs)
                      ELSE Adjusted(Ok,
                                    [account EXCEPT !.held = @ - tx.amount,
                                                    !.total = @ - tx.amount,
                                                    !.locked = TRUE],
                                    under_dispute(txs, tx.id, FALSE))
                 ELSE Adjusted("TransactionIsNotDisputable", account, txs)
          ELSE Adjusted(Ok, account, txs)

\* A chargeback that removes the held funds and leaves the dispute flag set.
adjust_chargeback_keeps_flag(account, transaction, txs) ==
    LET got == get_transaction(txs, transaction.id)
        tx == got.tx
    IN  IF got.result = Ok
          THEN IF tx.kind = "Deposit"
                 THEN IF account.client # tx.client_id
                        THEN Adjusted("TransactionAccessDenied", account, txs)
                      ELSE IF ~tx.under_dispute
                        THEN Adjusted(Ok, account, txs)
                      ELSE IF account.held < tx.amount
                        THEN Adjusted("AccountInsufficientAvailableFunds", account, txs)
                      ELSE Adjusted(Ok,
                                    [account EXCEPT !.held = @ - tx.amount,
                                                    !.total = @ - tx.amount,
                                                    !.locked = TRUE],
                                    txs)
                 ELSE Adjusted("TransactionIsNotDisputable", account, txs)
          ELSE Adjusted(Ok, account, txs)

adjust_chargeback(account, transaction, txs) ==
    LET got == get_transaction(txs, transaction.id)
        tx == got.tx
    IN  IF got.result = Ok
          THEN IF tx.kind = "Deposit"
                 THEN IF account.client # tx.client_id
                        THEN Adjusted("TransactionAccessDenied", account, txs)
                      ELSE IF ~tx.under_dispute
                        THEN Adjusted(Ok, account, txs)
                      ELSE IF account.held < tx.amount
                        THEN Adjusted("AccountInsufficientAvailableFunds", account, txs)
                      ELSE Adjusted(Ok,
                                    [account EXCEPT !.held = @ - tx.amount,
                                                    !.total = @ - tx.amount,
                                                    !.locked = TRUE],
                                    under_dispute(txs, tx.id, FALSE))
                 ELSE Adjusted("TransactionIsNotDisputable", account, txs)
          ELSE Adjusted(Ok, account, txs)

adjust_account(account, transaction, txs) ==
    CASE transaction.kind = "Deposit" -> adjust_deposit(account, transaction, txs)
      [] transaction.kind = "Withdrawal" -> adjust_withdrawal(account, transaction, txs)
      [] transaction.kind = "Dispute" -> adjust_dispute(account, transaction, txs)
      [] transaction.kind = "Resolve" -> adjust_resolve(account, transaction, txs)
      [] transaction.kind = "Chargeback" -> adjust_chargeback(account, transaction, txs)

----------------------------------------------------------------------------
\* processor.rs: process.  The value is the two maps as the call leaves them
\* and the error the call returned or logged (Ok when there was none).

Processed(result, accts, txs) ==
    [result |-> result, accounts |-> accts, transactions |-> txs]

\* The closure without its test of account.locked.
process_inserted_no_lock_check(accts, txs, tx) ==
    LET account == get_account(accts, tx.client_id)
        adj == adjust_account(account, tx, txs)
    IN  IF adj.result # Ok
          THEN Processed(adj.result, accts, adj.transactions)
          ELSE Processed(Ok, upsert_account(accts, adj.account), adj.transactions)

\* The closure testing account.locked only for the records that take funds
\* out: a locked account still accepts deposits.
process_inserted_locked_accepts_deposits(accts, txs, tx) ==
    LET account == get_account(accts, tx.client_id)
    IN  IF account.locked /\ tx.kind # "Deposit"
          THEN Processed("AccountIsLocked", accts, txs)
          ELSE LET adj == adjust_account(account, tx, txs)
               IN  IF adj.result # Ok
                     THEN Processed(adj.result, accts, adj.transactions)
                     ELSE Processed(Ok, upsert_account(accts, adj.account),
                                    adj.transactions)

\* A closure that stores the adjusted account whatever adjust_account returned.
process_inserted_upserts_on_error(accts, txs, tx) ==
    LET account == get_account(accts, tx.client_id)
    IN  IF account.locked
          THEN Processed("AccountIsLocked", accts, txs)
          ELSE LET adj == adjust_account(account, tx, txs)
               IN  Processed(adj.result, upsert_account(accts, adj.account),
                             adj.transactions)

\* The closure given to .map(): it runs on the record insert_transaction returned.
process_inserted(accts, txs, tx) ==
    LET account == get_account(accts, tx.client_id)
    IN  IF account.locked
          THEN Processed("AccountIsLocked", accts, txs)
          ELSE LET adj == adjust_account(account, tx, txs)
               IN  IF adj.result # Ok
                     THEN Processed(adj.result, accts, adj.transactions)
                     ELSE Processed(Ok, upsert_account(accts, adj.account),
                                    adj.transactions)

\* A process() that takes the inserted record out again when the closure fails.
process_rolls_back_insertion(accts, txs, transaction) ==
    IF is_not_valid(transaction)
      THEN Processed("TransactionIsNotValid", accts, txs)
      ELSE LET ins == insert_transaction(txs, transaction)
           IN  IF ins.result # Ok
                 THEN Processed(ins.result, accts, ins.transactions)
                 ELSE LET out == process_inserted(accts, ins.transactions, ins.tx)
                      IN  IF out.result # Ok
                            THEN Processed(out.result, accts, txs)
                            ELSE out

process(accts, txs, transaction) ==
    IF is_not_valid(transaction)
      THEN Processed("TransactionIsNotValid", accts, txs)
      ELSE LET ins == insert_transaction(txs, transaction)
           IN  IF ins.result # Ok
                 THEN Processed(ins.result, accts, ins.transactions)
                 ELSE process_inserted(accts, ins.transactions, ins.tx)

----------------------------------------------------------------------------
\* The run: main.rs reads the wire-form records of the input and hands each,
\* converted, to process().  An optional amount is <<>> (absent) or <<a>>.

unwrap_or_default(amount) == IF amount = <<>> THEN 0 ELSE amount[1]

\* domain.rs: impl From<Transaction> for StoredTransaction
From(transaction_type, client, tx, amount) ==
    CASE transaction_type = "deposit" ->
             Deposit(tx, client, unwrap_or_default(amount), FALSE)
      [] transaction_type = "withdrawal" ->
             Withdrawal(tx, client, unwrap_or_default(amount))
      [] transaction_type = "dispute" -> Dispute(tx, client)
      [] transaction_type = "resolve" -> Resolve(tx, client)
      [] transaction_type = "chargeback" -> Chargeback(tx, client)

\* The amount column of an input row: absent, or one of the bounded amounts.
AmountField == {<<>>} \cup {<<a>> : a \in Amount}

NoTransaction == [kind |-> "None"]

\* State::new(): both maps empty; no record has been processed.
Init ==
    /\ accounts = <<>>
    /\ transactions = <<>>
    /\ last = [tx |-> NoTransaction, result |-> "None"]
    /\ before = [accounts |-> <<>>, transactions |-> <<>>]
    /\ calls = [t \in ThreadId |-> [pc |-> "idle", tx |-> NoTransaction, result |-> "None"]]
    /\ expected = [c \in ClientId |-> 0]
    /\ overlapped = FALSE
    /\ started = 0

\* One iteration of main.rs's loop over the input rows.
Process(transaction_type, client, tx, amount) ==
    LET transaction == From(transaction_type, client, tx, amount)
        out == process(accounts, transactions, transaction)
    IN  /\ accounts' = out.accounts
        /\ transactions' = out.transactions
        /\ last' = [tx |-> transaction, result |-> out.result]
        /\ before' = [accounts |-> accounts, transactions |-> transactions]
        /\ UNCHANGED interleaving

ProcessDeposit ==
    \E tx \in TransactionId, client \in ClientId, amount \in AmountField :
        Process("deposit", client, tx, amount)

ProcessWithdrawal ==
    \E tx \in TransactionId, client \in ClientId, amount \in AmountField :
        Process("withdrawal", client, tx, amount)

ProcessDispute ==
    \E tx \in TransactionId, client \in ClientId : Process("dispute", client, tx, <<>>)

ProcessResolve ==
    \E tx \in TransactionId, client \in ClientId : Process("resolve", client, tx, <<>>)

ProcessChargeback ==
    \E tx \in TransactionId, client \in ClientId : Process("chargeback", client, tx, <<>>)

Next ==
    \/ ProcessDeposit
    \/ ProcessWithdrawal
    \/ ProcessDispute
    \/ ProcessResolve
    \/ ProcessChargeback

Spec == Init /\ [][Next]_vars

----------------------------------------------------------------------------
\* The output: main.rs hands every account, scaled, to the writer.  An Amount
\* is a rust_decimal Decimal, an integer mantissa with a scale (the number of
\* fractional digits).  The amounts of the input rows carry InputScale
\* fractional digits and are the multiples of AmountUnit in the last of them:
\* the amount n of this model is the Decimal n * AmountUnit * 10^-InputScale
\* (sums and differences of such amounts are again of scale InputScale; a
\* zero or a value of a smaller scale has the same mantissa at InputScale and
\* is rescaled exactly).

AMOUNT_PRECISION == 4
InputScale == 5
AmountUnit == 5

\* The mantissa, at scale InputScale, of an amount of the accounts.
Mantissa(amount) == amount * AmountUnit

\* Decimal::rescale to a smaller scale, on the magnitude of the mantissa: it
\* divides by ten once per digit dropped, stops at zero, and adds one if the
\* remainder of the last division is five or more.
RECURSIVE rescale_down(_, _, _)
rescale_down(value, diff, remainder) ==
    IF diff = 0
      THEN IF remainder >= 5 THEN value + 1 ELSE value
    ELSE IF value = 0
      THEN 0
    ELSE rescale_down(value \div 10, diff - 1, value % 10)

rescale(mantissa, scale, new_scale) ==
    IF mantissa < 0
      THEN 0 - rescale_down(0 - mantissa, scale - new_scale, 0)
      ELSE rescale_down(mantissa, scale - new_scale, 0)

\* The mantissa of the result, of scale AMOUNT_PRECISION if the amount had more
\* fractional digits and of the scale it had if not.
scale_to_amount_precision(mantissa) ==
    IF InputScale > AMOUNT_PRECISION
      THEN rescale(mantissa, InputScale, AMOUNT_PRECISION)
      ELSE mantissa

scaled(account) ==
    [account EXCEPT !.available = scale_to_amount_precision(Mantissa(@)),
                    !.held = scale_to_amount_precision(Mantissa(@)),
                    !.total = scale_to_amount_precision(Mantissa(@))]

\* The rows written if the input ends here.
balances == [c \in DOMAIN accounts |-> scaled(accounts[c])]

----------------------------------------------------------------------------

\* process() called from several threads.  process() takes &self and State
\* guards each map with its own RwLock, so each State method is atomic and a
\* call is a sequence of them: insert_transaction, get_account,
\* get_transaction and under_dispute (Dispute, Resolve, Chargeback only),
\* upsert_account.  What a call computes between two of them it computes on
\* its own copy of the account.

\* A call that has read its account and has not yet written it back.
Window == {"get_transaction", "under_dispute", "upsert_account"}

WindowsOverlap(cs) ==
    \E t, u \in ThreadId :
        /\ t # u
        /\ cs[t].pc \in Window
        /\ cs[u].pc \in Window
        /\ cs[t].tx.client_id = cs[u].tx.client_id

\* The call of thread t returns, having returned or logged `result`.
Return(t, result) ==
    calls' = [calls EXCEPT ![t] = [pc |-> "idle", tx |-> calls[t].tx, result |-> result]]

\* The call of thread t goes on to its next State method.
Continue(t, pc, account, flag) ==
    /\ calls' = [calls EXCEPT ![t] = [pc |-> pc, tx |-> calls[t].tx,
                                      read |-> IF calls[t].pc = "get_account"
                                                 THEN get_account(accounts, calls[t].tx.client_id)
                                                 ELSE calls[t].read,
                                      account |-> account, flag |-> flag]]
    /\ overlapped' = (overlapped \/ WindowsOverlap(calls'))

\* process() up to and including insert_transaction.
Call(t, transaction_type, client, tx, amount) ==
    LET transaction == From(transaction_type, client, tx, amount)
        ins == insert_transaction(transactions, transaction)
    IN  /\ calls[t].pc = "idle"
        /\ started < MaxCalls
        /\ started' = started + 1
        /\ IF is_not_valid(transaction)
             THEN /\ calls' = [calls EXCEPT ![t] = [pc |-> "idle", tx |-> transaction,
                                                    result |-> "TransactionIsNotValid"]]
                  /\ UNCHANGED transactions
             ELSE /\ transactions' = ins.transactions
                  /\ calls' = [calls EXCEPT ![t] =
                                   IF ins.result # Ok
                                     THEN [pc |-> "idle", tx |-> transaction,
                                           result |-> ins.result]
                                     ELSE [pc |-> "get_account", tx |-> ins.tx]]
        /\ UNCHANGED <<accounts, last, before, expected, overlapped>>

CallDeposit ==
    \E t \in ThreadId, tx \in TransactionId, client \in ClientId, amount \in AmountField :
        Call(t, "deposit", client, tx, amount)

CallWithdrawal ==
    \E t \in ThreadId, tx \in TransactionId, client \in ClientId, amount \in AmountField :
        Call(t, "withdrawal", client, tx, amount)

CallDispute ==
    \E t \in ThreadId, tx \in TransactionId, client \in ClientId :
        Call(t, "dispute", client, tx, <<>>)

CallResolve ==
    \E t \in ThreadId, tx \in TransactionId, client \in ClientId :
        Call(t, "resolve", client, tx, <<>>)

CallChargeback ==
    \E t \in ThreadId, tx \in TransactionId, client \in ClientId :
        Call(t, "chargeback", client, tx, <<>>)

\* get_account and the lock test; for a Deposit or a Withdrawal also
\* adjust_account, which calls no State method for them.
GetAccount(t) ==
    LET tx == calls[t].tx
        account == get_account(accounts, tx.client_id)
        adj == adjust_account(account, tx, transactions)
    IN  /\ calls[t].pc = "get_account"
        /\ IF account.locked
             THEN Return(t, "AccountIsLocked") /\ UNCHANGED overlapped
           ELSE IF tx.kind \notin {"Deposit", "Withdrawal"}
             THEN Continue(t, "get_transaction", account, FALSE)
           ELSE IF adj.result # Ok
             THEN Return(t, adj.result) /\ UNCHANGED overlapped
           ELSE Continue(t, "upsert_account", adj.account, FALSE)
        /\ UNCHANGED <<accounts, transactions, last, before, expected, started>>

\* get_transaction and the tests and arithmetic of the Dispute, Resolve or
\* Chargeback arm, up to its call of under_dispute if it makes one.
GetTransaction(t) ==
    LET tx == calls[t].tx
        adj == adjust_account(calls[t].account, tx, transactions)
    IN  /\ calls[t].pc = "get_transaction"
        /\ IF adj.result # Ok
             THEN Return(t, adj.result) /\ UNCHANGED overlapped
           ELSE IF adj.transactions # transactions
             THEN Continue(t, "under_dispute", adj.account,
                           adj.transactions[tx.id].under_dispute)
           ELSE Continue(t, "upsert_account", adj.account, FALSE)
        /\ UNCHANGED <<accounts, transactions, last, before, expected, started>>

\* under_dispute, on the transactions map as it is by now.
UnderDispute(t) ==
    /\ calls[t].pc = "under_dispute"
    /\ transactions' = under_dispute(transactions, calls[t].tx.id, calls[t].flag)
    /\ Continue(t, "upsert_account", calls[t].account, calls[t].flag)
    /\ UNCHANGED <<accounts, last, before, expected, started>>

\* upsert_account of the call's copy of the account; the call returns Ok.
UpsertAccount(t) ==
    LET account == calls[t].account
    IN  /\ calls[t].pc = "upsert_account"
        /\ accounts' = upsert_account(accounts, account)
        /\ expected' = [expected EXCEPT ![account.client] =
                            @ + account.total - calls[t].read.total]
        /\ Return(t, Ok)
        /\ UNCHANGED <<transactions, last, before, overlapped, started>>

NextConcurrent ==
    \/ CallDeposit
    \/ CallWithdrawal
    \/ CallDispute
    \/ CallResolve
    \/ CallChargeback
    \/ \E t \in ThreadId : GetAccount(t)
    \/ \E t \in ThreadId : GetTransaction(t)
    \/ \E t \in ThreadId : UnderDispute(t)
    \/ \E t \in ThreadId : UpsertAccount(t)

SpecConcurrent == Init /\ [][NextConcurrent]_vars

----------------------------------------------------------------------------

\* Vocabulary of the properties below.  A reachable state records the latest
\* process() call: its record (last.tx), the error it returned or logged
\* (last.result, Ok when none) and the maps it started from (before).

Processing(kinds) == last.tx.kind \in kinds

\* The acting client's account as get_account returns it, before and after the call.
AccountBefore == get_account(before.accounts, last.tx.client_id)

AccountAfter == get_account(accounts, last.tx.client_id)

\* The latest record's id names a Deposit stored when the call began.
RefersToStoredDeposit ==
    /\ last.tx.id \in DOMAIN before.transactions
    /\ before.transactions[last.tx.id].kind = "Deposit"

\* ... and that Deposit belongs to the acting client.
RefersToOwnDeposit ==
    /\ RefersToStoredDeposit
    /\ before.transactions[last.tx.id].client_id = last.tx.client_id

ReferencedBefore == before.transactions[last.tx.id]

ReferencedAfter == transactions[last.tx.id]

SameBalances(a, b) ==
    /\ a.available = b.available
    /\ a.held = b.held
    /\ a.total = b.total

----------------------------------------------------------------------------
\* C1: after any sequence of process() calls on an initially empty store,
\* every account held in the store satisfies total = available + held.
C1_TotalIsAvailablePlusHeld ==
    \A c \in DOMAIN accounts :
        accounts[c].total = accounts[c].available + accounts[c].held

\* An account that holds both available funds and funds under dispute.
C1_Witness ==
    \E c \in DOMAIN accounts :
        /\ accounts[c].available > 0
        /\ accounts[c].held > 0
        /\ accounts[c].total = accounts[c].available + accounts[c].held

----------------------------------------------------------------------------
\* C2 as stated: once a client's account is locked, every later transaction
\* of that client fails with AccountIsLocked and mutates neither the account
\* records nor the transaction store.
C2_Original ==
    (Processing({"Deposit", "Withdrawal", "Dispute", "Resolve", "Chargeback"})
        /\ AccountBefore.locked)
    => /\ last.result = "AccountIsLocked"
       /\ accounts = before.accounts
       /\ transactions = before.transactions

\* C2 as the code has it: a record of a locked client never changes an account
\* record nor a transaction already stored.  It is rejected as
\* TransactionIsNotValid when its amount is negative, as
\* TransactionAlreadyExists when it is a Deposit or Withdrawal with a stored
\* id, and as AccountIsLocked otherwise; a Deposit or Withdrawal rejected as
\* AccountIsLocked has by then been inserted into the transaction store.
C2_LockedClientRejected ==
    (Processing({"Deposit", "Withdrawal", "Dispute", "Resolve", "Chargeback"})
        /\ AccountBefore.locked)
    => /\ accounts = before.accounts
       /\ \A id \in DOMAIN before.transactions :
              id \in DOMAIN transactions /\ transactions[id] = before.transactions[id]
       /\ IF Processing({"Deposit", "Withdrawal"}) /\ last.tx.amount < 0
            THEN last.result = "TransactionIsNotValid"
                 /\ transactions = before.transactions
          ELSE IF Processing({"Deposit", "Withdrawal"})
                  /\ last.tx.id \in DOMAIN before.transactions
            THEN last.result = "TransactionAlreadyExists"
                 /\ transactions = before.transactions
          ELSE IF Processing({"Deposit", "Withdrawal"})
            THEN last.result = "AccountIsLocked"
                 /\ transactions = (last.tx.id :> last.tx) @@ before.transactions
          ELSE last.result = "AccountIsLocked"
               /\ transactions = before.transactions

\* A Deposit with a fresh id for a locked client: rejected, yet stored.
C2_Witness ==
    /\ Processing({"Deposit"})
    /\ AccountBefore.locked
    /\ last.result = "AccountIsLocked"
    /\ last.tx.id \notin DOMAIN before.transactions
    /\ last.tx.id \in DOMAIN transactions

----------------------------------------------------------------------------
\* The effect C3 describes: held and total reduced by the deposit's amount,
\* available unchanged, the account locked, the dispute flag cleared.
ChargebackApplied ==
    /\ AccountAfter.held = AccountBefore.held - ReferencedBefore.amount
    /\ AccountAfter.total = AccountBefore.total - ReferencedBefore.amount
    /\ AccountAfter.available = AccountBefore.available
    /\ AccountAfter.locked
    /\ ~ReferencedAfter.under_dispute

\* C3 as stated: a Chargeback by the owning client on a Deposit that is under
\* dispute has that effect.
C3_Original ==
    (Processing({"Chargeback"}) /\ RefersToOwnDeposit /\ ReferencedBefore.under_dispute)
    => ChargebackApplied

\* C3 as the code has it: the same, when the owning client's account is not
\* yet locked (a locked account rejects the Chargeback and nothing changes).
C3_ChargebackOnUnlocked ==
    (Processing({"Chargeback"}) /\ RefersToOwnDeposit /\ ReferencedBefore.under_dispute
        /\ ~AccountBefore.locked)
    => /\ last.result = Ok
       /\ ChargebackApplied

\* A chargeback of a positive amount went through, leaving available funds behind.
C3_Witness ==
    /\ Processing({"Chargeback"})
    /\ RefersToOwnDeposit
    /\ ReferencedBefore.under_dispute
    /\ ~AccountBefore.locked
    /\ ReferencedBefore.amount > 0
    /\ AccountAfter.available > 0
    /\ AccountAfter.locked

----------------------------------------------------------------------------
\* The effect of a Dispute that went through: the amount moved from available
\* to held, total unchanged, the flag set.
DisputeApplied ==
    /\ AccountAfter.available = AccountBefore.available - ReferencedBefore.amount
    /\ AccountAfter.held = AccountBefore.held + ReferencedBefore.amount
    /\ AccountAfter.total = AccountBefore.total
    /\ ReferencedAfter.under_dispute

C4_SuccessfulDispute ==
    (Processing({"Dispute"}) /\ RefersToOwnDeposit /\ last.result = Ok)
    => DisputeApplied

\* A Dispute rejected without a trace: the acting account and the flag are as before.
DisputeRejectedUnchanged ==
    /\ AccountAfter = AccountBefore
    /\ accounts = before.accounts
    /\ ReferencedAfter.under_dispute

\* C4 as stated: a successful Dispute by the owning client moves the amount
\* and sets the flag; a second Dispute of the same id while the flag is set
\* fails with TransactionAlreadyUnderDispute and changes neither account nor flag.
C4_Original ==
    /\ C4_SuccessfulDispute
    /\ (Processing({"Dispute"}) /\ RefersToOwnDeposit /\ ReferencedBefore.under_dispute)
       => /\ last.result = "TransactionAlreadyUnderDispute"
          /\ DisputeRejectedUnchanged

\* C4 as the code has it: the second Dispute fails with
\* TransactionAlreadyUnderDispute when the owning account is unlocked, and
\* with AccountIsLocked when it is locked; in both cases nothing changes.
C4_DisputeMovesAndSecondFails ==
    /\ C4_SuccessfulDispute
    /\ (Processing({"Dispute"}) /\ RefersToOwnDeposit /\ ReferencedBefore.under_dispute)
       => /\ last.result = IF AccountBefore.locked
                             THEN "AccountIsLocked"
                             ELSE "TransactionAlreadyUnderDispute"
          /\ DisputeRejectedUnchanged

\* A second Dispute of a deposit under dispute was rejected on an unlocked
\* account that holds the disputed amount.
C4_Witness ==
    /\ Processing({"Dispute"})
    /\ RefersToOwnDeposit
    /\ ReferencedBefore.under_dispute
    /\ ReferencedBefore.amount > 0
    /\ last.result = "TransactionAlreadyUnderDispute"
    /\ AccountAfter.held >= ReferencedBefore.amount

----------------------------------------------------------------------------
\* A step of the run in which a Dispute of a Deposit stored for the acting
\* client is followed at once by a Resolve of the same id by the same client.
DisputeThenResolve ==
    /\ Processing({"Dispute"})
    /\ RefersToOwnDeposit
    /\ last'.tx.kind = "Resolve"
    /\ last'.tx.id = last.tx.id
    /\ last'.tx.client_id = last.tx.client_id

\* After that step the account and the flag are what they were before the Dispute.
RestoredAfterResolve ==
    /\ get_account(accounts', last.tx.client_id) = AccountBefore
    /\ transactions'[last.tx.id].under_dispute = ReferencedBefore.under_dispute

\* A Resolve of a stored Deposit of the acting client that is not under dispute.
ResolveOfUndisputed ==
    /\ Processing({"Resolve"})
    /\ RefersToOwnDeposit
    /\ ~ReferencedBefore.under_dispute

ResolveChangedNothing ==
    /\ AccountAfter = AccountBefore
    /\ ~ReferencedAfter.under_dispute

C5_ResolveNoOp_Original ==
    ResolveOfUndisputed => (last.result = Ok /\ ResolveChangedNothing)

C5_ResolveNoOp ==
    ResolveOfUndisputed
    => /\ last.result = IF AccountBefore.locked THEN "AccountIsLocked" ELSE Ok
       /\ ResolveChangedNothing

\* C5 as stated: Dispute immediately followed by Resolve of the same Deposit
\* by the owning client restores account and flag to their values before the
\* Dispute; a Resolve of a stored Deposit not under dispute succeeds and
\* changes neither account nor flag.
C5_Original ==
    [][(DisputeThenResolve => RestoredAfterResolve) /\ C5_ResolveNoOp_Original']_vars

\* C5 as the code has it: the pair restores account and flag when the Deposit
\* was not already under dispute as the Dispute arrived (otherwise the Dispute
\* is rejected and the Resolve undoes the earlier one); the Resolve of an
\* undisputed Deposit changes nothing, succeeding on an unlocked account and
\* failing with AccountIsLocked on a locked one.
C5_DisputeResolveRoundTrip ==
    [][/\ (DisputeThenResolve /\ ~ReferencedBefore.under_dispute) => RestoredAfterResolve
       /\ C5_ResolveNoOp']_vars

\* A Resolve gave a positive disputed amount back to available.
C5_Witness ==
    /\ Processing({"Resolve"})
    /\ RefersToOwnDeposit
    /\ ReferencedBefore.under_dispute
    /\ ReferencedBefore.amount > 0
    /\ last.result = Ok
    /\ AccountAfter.available = AccountBefore.available + ReferencedBefore.amount
    /\ ~ReferencedAfter.under_dispute

----------------------------------------------------------------------------
WithdrawalApplied ==
    /\ AccountAfter.available = AccountBefore.available - last.tx.amount
    /\ AccountAfter.total = AccountBefore.total - last.tx.amount
    /\ AccountAfter.held = AccountBefore.held

\* C6 as stated: a Withdrawal of more than the available funds fails with
\* AccountInsufficientAvailableFunds and leaves the account unmodified; one of
\* at most the available funds on an unlocked account debits available and total.
C6_Original ==
    /\ (Processing({"Withdrawal"}) /\ last.tx.amount > AccountBefore.available)
       => /\ last.result = "AccountInsufficientAvailableFunds"
          /\ AccountAfter = AccountBefore
    /\ (Processing({"Withdrawal"}) /\ last.tx.amount <= AccountBefore.available
            /\ ~AccountBefore.locked)
       => WithdrawalApplied

\* C6 as the code has it: the same for a Withdrawal that reaches its
\* adjustment, that is with a fresh id, and for the first half an unlocked
\* account, for the second a non-negative amount.  Any Withdrawal of more than
\* the available funds leaves the account unmodified.
C6_WithdrawalChecked ==
    /\ (Processing({"Withdrawal"}) /\ last.tx.amount > AccountBefore.available)
       => /\ (last.tx.id \notin DOMAIN before.transactions /\ ~AccountBefore.locked)
                => last.result = "AccountInsufficientAvailableFunds"
          /\ AccountAfter = AccountBefore
    /\ (Processing({"Withdrawal"}) /\ last.tx.amount <= AccountBefore.available
            /\ ~AccountBefore.locked
            /\ last.tx.id \notin DOMAIN before.transactions
            /\ last.tx.amount >= 0)
       => (last.result = Ok /\ WithdrawalApplied)

\* A Withdrawal of more than the (positive) available funds was refused.
C6_Witness ==
    /\ Processing({"Withdrawal"})
    /\ AccountBefore.available > 0
    /\ last.tx.amount > AccountBefore.available
    /\ last.result = "AccountInsufficientAvailableFunds"

----------------------------------------------------------------------------
\* C7: when a Deposit or Withdrawal carries an id already in the transaction
\* store, the insertion fails with TransactionAlreadyExists (whenever the
\* record gets as far as the insertion: a negative amount is refused before),
\* the stored record stays as it was and no account is adjusted.
C7_DuplicateIdNotApplied ==
    (Processing({"Deposit", "Withdrawal"}) /\ last.tx.id \in DOMAIN before.transactions)
    => /\ ~is_not_valid(last.tx) => last.result = "TransactionAlreadyExists"
       /\ insert_transaction(before.transactions, last.tx).result
              = "TransactionAlreadyExists"
       /\ transactions = before.transactions
       /\ accounts = before.accounts

\* A second Deposit with the id of a stored Deposit of another amount was refused.
C7_Witness ==
    /\ Processing({"Deposit"})
    /\ last.tx.id \in DOMAIN before.transactions
    /\ before.transactions[last.tx.id].kind = "Deposit"
    /\ before.transactions[last.tx.id].amount # last.tx.amount
    /\ last.tx.amount > 0
    /\ last.result = "TransactionAlreadyExists"

----------------------------------------------------------------------------
\* A step in which a Deposit with a fresh id on an unlocked account is
\* followed at once by a Withdrawal, with a fresh id, of the same amount by
\* the same client.
DepositThenWithdrawal ==
    /\ Processing({"Deposit"})
    /\ ~AccountBefore.locked
    /\ last.tx.id \notin DOMAIN before.transactions
    /\ last'.tx.kind = "Withdrawal"
    /\ last'.tx.client_id = last.tx.client_id
    /\ last'.tx.amount = last.tx.amount
    /\ last'.tx.id \notin DOMAIN transactions

----------------------------------------------------------------------------
NothingStoredChanged == transactions = before.transactions

NoExistingAccountChanged ==
    \A c \in DOMAIN before.accounts :
        c \in DOMAIN accounts /\ accounts[c] = before.accounts[c]

\* The acting client's account exists afterwards, zeroed if it is new, and no other was added.
ActingAccountLazilyCreated ==
    /\ DOMAIN accounts = DOMAIN before.accounts \cup {last.tx.client_id}
    /\ last.tx.client_id \notin DOMAIN before.accounts
           => accounts[last.tx.client_id] = Account_new(last.tx.client_id)

RefersToUnknownId ==
    /\ Processing({"Dispute", "Resolve", "Chargeback"})
    /\ last.tx.id \notin DOMAIN before.transactions

\* C9 as stated: a Dispute, Resolve or Chargeback of an id that is not in the
\* transaction store is processed successfully as a no-op; no account balance
\* and no stored transaction changes; the acting client's account is created,
\* zeroed and unlocked, if it did not exist.
C9_Original ==
    RefersToUnknownId
    => /\ last.result = Ok
       /\ NothingStoredChanged
       /\ NoExistingAccountChanged
       /\ ActingAccountLazilyCreated

\* C9 as the code has it: the same when the acting client's account is not
\* locked; when it is locked the record fails with AccountIsLocked, and
\* neither map changes.
C9_UnknownIdIsNoOp ==
    RefersToUnknownId
    => /\ last.result = IF AccountBefore.locked THEN "AccountIsLocked" ELSE Ok
       /\ NothingStoredChanged
       /\ NoExistingAccountChanged
       /\ ActingAccountLazilyCreated

\* A Dispute of an unknown id by a client without an account created the account.
C9_Witness ==
    /\ RefersToUnknownId
    /\ last.result = Ok
    /\ last.tx.client_id \notin DOMAIN before.accounts
    /\ last.tx.client_id \in DOMAIN accounts
    /\ before.accounts # <<>>

----------------------------------------------------------------------------
\* C10: locking is permanent.  An account that is locked stays in the store,
\* locked, with the same available, held and total, in every later state.
C10_LockedIsFrozen ==
    [][\A c \in DOMAIN accounts :
           accounts[c].locked
           => /\ c \in DOMAIN accounts'
              /\ accounts'[c].locked
              /\ SameBalances(accounts'[c], accounts[c])]_vars

\* A locked account was sent a Deposit of a positive amount with a fresh id,
\* and kept its balances.
C10_Witness ==
    /\ Processing({"Deposit"})
    /\ AccountBefore.locked
    /\ last.tx.amount > 0
    /\ last.tx.id \notin DOMAIN before.transactions
    /\ AccountAfter = AccountBefore

----------------------------------------------------------------------------
\* C11: a Deposit or Withdrawal with a strictly negative amount is rejected
\* with TransactionIsNotValid and has no effect: it is not inserted into the
\* transaction store and no account is created or modified.  A zero amount is
\* accepted as valid.
C11_NegativeAmountRejected ==
    /\ (Processing({"Deposit", "Withdrawal"}) /\ last.tx.amount < 0)
       => /\ last.result = "TransactionIsNotValid"
          /\ transactions = before.transactions
          /\ accounts = before.accounts
    /\ (Processing({"Deposit", "Withdrawal"}) /\ last.tx.amount = 0)
       => last.result # "TransactionIsNotValid"

\* A negative Withdrawal with a fresh id was sent to an unlocked account with
\* funds (it would have credited the account), and a zero Deposit was stored.
C11_Witness ==
    /\ Processing({"Withdrawal"})
    /\ last.tx.amount < 0
    /\ last.tx.id \notin DOMAIN before.transactions
    /\ ~AccountBefore.locked
    /\ AccountBefore.available > 0
    /\ \E id \in DOMAIN transactions :
           transactions[id].kind = "Deposit" /\ transactions[id].amount > 0

----------------------------------------------------------------------------
\* The flag of a stored Deposit, FALSE for a Withdrawal (which has none).
FlagOf(tx) == tx.kind = "Deposit" /\ tx.under_dispute

\* The latest record is a successful `kinds` record for `id` sent by the
\* client the stored record `id` belongs to.
SuccessfulByOwner(kinds, id) ==
    /\ Processing(kinds)
    /\ last.tx.id = id
    /\ last.tx.client_id = before.transactions[id].client_id
    /\ last.result = Ok

\* C12: the transaction store holds only Deposit and Withdrawal records,
\* entries are never removed, and a stored record's id, client_id and amount
\* never change; only a Deposit's under_dispute flag changes, from false to
\* true only through a successful Dispute of that id by the owning client, and
\* from true to false only through a successful Resolve or Chargeback of that
\* id by the owning client.
C12_StoreOnlyFlagsChange ==
    /\ \A id \in DOMAIN transactions :
           /\ transactions[id].kind \in {"Deposit", "Withdrawal"}
           /\ transactions[id].id = id
    /\ \A id \in DOMAIN before.transactions :
           /\ id \in DOMAIN transactions
           /\ transactions[id].kind = before.transactions[id].kind
           /\ transactions[id].id = before.transactions[id].id
           /\ transactions[id].client_id = before.transactions[id].client_id
           /\ transactions[id].amount = before.transactions[id].amount
           /\ (~FlagOf(before.transactions[id]) /\ FlagOf(transactions[id]))
              => SuccessfulByOwner({"Dispute"}, id)
           /\ (FlagOf(before.transactions[id]) /\ ~FlagOf(transactions[id]))
              => SuccessfulByOwner({"Resolve", "Chargeback"}, id)

\* A chargeback cleared the flag of one deposit while the store also holds a
\* record of the other client.
C12_Witness ==
    /\ Processing({"Chargeback"})
    /\ RefersToOwnDeposit
    /\ ReferencedBefore.under_dispute
    /\ ~ReferencedAfter.under_dispute
    /\ \E id \in DOMAIN transactions :
           transactions[id].client_id # last.tx.client_id

----------------------------------------------------------------------------
\* The clients whose account record the latest call added to the store.
CreatedAccounts == DOMAIN accounts \ DOMAIN before.accounts

\* C13 as stated: an account record for a client exists in the store only if
\* a Deposit or Withdrawal for that client has been successfully processed; no
\* other kind of record and no failed record creates an account.
C13_Original ==
    \A c \in CreatedAccounts :
        /\ Processing({"Deposit", "Withdrawal"})
        /\ last.tx.client_id = c
        /\ last.result = Ok

\* C13: an account record for a client is created only by a record of that
\* client that was processed successfully; no failed record creates an
\* account.  The record is a Deposit or a Withdrawal, or else a Dispute,
\* Resolve or Chargeback of an id that is not in the transaction store, which
\* creates the account with zero balances and unlocked.
C13_AccountCreatedBySuccess ==
    \A c \in CreatedAccounts :
        /\ last.tx.client_id = c
        /\ last.result = Ok
        /\ \/ Processing({"Deposit", "Withdrawal"})
           \/ /\ RefersToUnknownId
              /\ accounts[c] = Account_new(c)

\* A successful Deposit created one client's account, after a failed
\* Withdrawal of the other client had created none.
C13_Witness ==
    /\ Processing({"Deposit"})
    /\ last.result = Ok
    /\ last.tx.client_id \in CreatedAccounts
    /\ \E id \in DOMAIN before.transactions :
           /\ before.transactions[id].kind = "Withdrawal"
           /\ before.transactions[id].client_id \notin DOMAIN accounts

----------------------------------------------------------------------------
\* The latest record is a Withdrawal refused for want of available funds.
FailedWithdrawal ==
    /\ Processing({"Withdrawal"})
    /\ last.result = "AccountInsufficientAvailableFunds"

\* ... it is in the store under its id, and no account was touched.
StoredButNotDebited ==
    /\ last.tx.id \in DOMAIN transactions
    /\ transactions[last.tx.id] = last.tx
    /\ last.tx.id \notin DOMAIN before.transactions
    /\ accounts = before.accounts

\* The next record is a Deposit or Withdrawal with the id of the latest one.
NextReusesId ==
    /\ last'.tx.kind \in {"Deposit", "Withdrawal"}
    /\ last'.tx.id = last.tx.id

\* The next record is a Deposit or Withdrawal with the id of a stored Withdrawal.
NextReusesWithdrawalId ==
    /\ last'.tx.kind \in {"Deposit", "Withdrawal"}
    /\ last'.tx.id \in DOMAIN transactions
    /\ transactions[last'.tx.id].kind = "Withdrawal"

NextNotApplied ==
    /\ accounts' = accounts
    /\ transactions' = transactions

\* C14 as stated: a Withdrawal that fails with insufficient available funds
\* stays in the transaction store under its id and the account is not debited;
\* a later Deposit or Withdrawal reusing that id is rejected with
\* TransactionAlreadyExists and is not applied to any account.
C14_Original ==
    [][/\ FailedWithdrawal => StoredButNotDebited
       /\ (FailedWithdrawal /\ NextReusesId)
          => /\ last'.result = "TransactionAlreadyExists"
             /\ NextNotApplied]_vars

\* C14: a Withdrawal that fails with insufficient available funds stays in the
\* transaction store under its id and the account is not debited; a later
\* Deposit or Withdrawal reusing that id is not applied to any account, and is
\* rejected with TransactionAlreadyExists if its amount is not negative and
\* with TransactionIsNotValid if it is.
C14_FailedWithdrawalKeepsId ==
    [][/\ FailedWithdrawal' => StoredButNotDebited'
       /\ ((FailedWithdrawal /\ NextReusesId) \/ NextReusesWithdrawalId)
          => /\ last'.result = IF last'.tx.amount < 0
                                 THEN "TransactionIsNotValid"
                                 ELSE "TransactionAlreadyExists"
             /\ NextNotApplied]_vars

\* A Deposit was refused as a duplicate of a stored Withdrawal that had
\* failed: its client, unlocked, has no funds and the Withdrawal is of more.
C14_Witness ==
    /\ Processing({"Deposit"})
    /\ last.tx.amount > 0
    /\ last.result = "TransactionAlreadyExists"
    /\ ReferencedBefore.kind = "Withdrawal"
    /\ ReferencedBefore.amount > 0
    /\ ReferencedBefore.client_id \notin DOMAIN accounts

----------------------------------------------------------------------------
\* The latest record is a Dispute, Resolve or Chargeback of a stored Deposit
\* that belongs to another client than the one acting.
RefersToForeignDeposit ==
    /\ Processing({"Dispute", "Resolve", "Chargeback"})
    /\ RefersToStoredDeposit
    /\ ReferencedBefore.client_id # last.tx.client_id

\* No account (the acting client's and the owner's included) and no stored
\* record (the dispute flags included) differs from before the call.
NothingChanged ==
    /\ accounts = before.accounts
    /\ transactions = before.transactions

\* C15 as stated: a Dispute, Resolve or Chargeback by a client other than the
\* stored Deposit's client fails with TransactionAccessDenied and changes
\* neither client's account nor the Deposit's under_dispute flag.
C15_Original ==
    RefersToForeignDeposit
    => /\ last.result = "TransactionAccessDenied"
       /\ NothingChanged

\* C15: a Dispute, Resolve or Chargeback by a client other than the stored
\* Deposit's client changes neither client's account nor the Deposit's
\* under_dispute flag; it fails with TransactionAccessDenied if the acting
\* client's account is not locked and with AccountIsLocked if it is.
C15_ForeignDepositDenied ==
    RefersToForeignDeposit
    => /\ last.result = IF AccountBefore.locked
                          THEN "AccountIsLocked"
                          ELSE "TransactionAccessDenied"
       /\ NothingChanged

\* Another client's Chargeback of a Deposit under dispute, with the funds
\* held on the owner's account, was denied.
C15_Witness ==
    /\ RefersToForeignDeposit
    /\ Processing({"Chargeback"})
    /\ ReferencedBefore.under_dispute
    /\ get_account(before.accounts, ReferencedBefore.client_id).held > 0
    /\ last.result = "TransactionAccessDenied"

----------------------------------------------------------------------------
\* The latest record is a Dispute, Resolve or Chargeback of a stored Withdrawal.
RefersToStoredWithdrawal ==
    /\ Processing({"Dispute", "Resolve", "Chargeback"})
    /\ last.tx.id \in DOMAIN before.transactions
    /\ ReferencedBefore.kind = "Withdrawal"

\* C16 as stated: a Dispute, Resolve or Chargeback whose id refers to a stored
\* Withdrawal fails with TransactionIsNotDisputable, whichever client issues
\* it, and leaves every account and every stored transaction unchanged.
C16_Original ==
    RefersToStoredWithdrawal
    => /\ last.result = "TransactionIsNotDisputable"
       /\ NothingChanged

\* C16: a Dispute, Resolve or Chargeback whose id refers to a stored
\* Withdrawal leaves every account and every stored transaction unchanged,
\* whichever client issues it; it fails with TransactionIsNotDisputable if the
\* acting client's account is not locked and with AccountIsLocked if it is.
C16_WithdrawalNotDisputable ==
    RefersToStoredWithdrawal
    => /\ last.result = IF AccountBefore.locked
                          THEN "AccountIsLocked"
                          ELSE "TransactionIsNotDisputable"
       /\ NothingChanged

\* A Resolve of another client's Withdrawal, one that had debited its
\* owner's account, was refused as not disputable.
C16_Witness ==
    /\ RefersToStoredWithdrawal
    /\ Processing({"Resolve"})
    /\ ReferencedBefore.client_id # last.tx.client_id
    /\ ReferencedBefore.amount > 0
    /\ ReferencedBefore.client_id \in DOMAIN before.accounts
    /\ last.result = "TransactionIsNotDisputable"

----------------------------------------------------------------------------
\* The latest record is the owner's Dispute of a Deposit not under dispute
\* whose amount exceeds the available funds.
DisputeExceedsAvailable ==
    /\ Processing({"Dispute"})
    /\ RefersToOwnDeposit
    /\ ~ReferencedBefore.under_dispute
    /\ AccountBefore.available < ReferencedBefore.amount

\* C17 as stated: the owner's Dispute of a Deposit not under dispute, when
\* the available funds are less than the Deposit's amount, fails with
\* AccountInsufficientAvailableFunds; the account is unchanged and the flag
\* stays false.
C17_Original ==
    DisputeExceedsAvailable
    => /\ last.result = "AccountInsufficientAvailableFunds"
       /\ accounts = before.accounts
       /\ ~ReferencedAfter.under_dispute

\* C17: the owner's Dispute of a Deposit not under dispute, when the
\* available funds are less than the Deposit's amount, leaves the account
\* unchanged and the flag false; it fails with
\* AccountInsufficientAvailableFunds if the account is not locked and with
\* AccountIsLocked if it is.
C17_DisputeNeedsAvailable ==
    DisputeExceedsAvailable
    => /\ last.result = IF AccountBefore.locked
                          THEN "AccountIsLocked"
                          ELSE "AccountInsufficientAvailableFunds"
       /\ accounts = before.accounts
       /\ transactions = before.transactions
       /\ ~ReferencedAfter.under_dispute

\* A Dispute of a Deposit partly withdrawn since was refused for want of funds.
C17_Witness ==
    /\ DisputeExceedsAvailable
    /\ AccountBefore.available > 0
    /\ last.result = "AccountInsufficientAvailableFunds"

----------------------------------------------------------------------------
\* The ids of the stored Deposits of `client` that are under dispute.
DisputedDeposits(txs, client) ==
    {id \in DOMAIN txs : /\ txs[id].kind = "Deposit"
                         /\ txs[id].client_id = client
                         /\ txs[id].under_dispute}

RECURSIVE SumOfAmounts(_, _)
SumOfAmounts(txs, ids) ==
    IF ids = {}
      THEN 0
      ELSE LET id == CHOOSE i \in ids : TRUE
           IN  txs[id].amount + SumOfAmounts(txs, ids \ {id})

\* C19: in every state reached by sequential processing, each client's held
\* balance equals the sum of the amounts of the stored Deposits owned by that
\* client whose under_dispute flag is true (zero for a client without account).
C19_HeldIsSumOfDisputed ==
    \A c \in ClientId :
        get_account(accounts, c).held
            = SumOfAmounts(transactions, DisputedDeposits(transactions, c))

\* One client has two Deposits of different amounts under dispute at once
\* and holds the sum of both.
C19_Witness ==
    \E c \in ClientId :
        /\ Cardinality(DisputedDeposits(transactions, c)) = 2
        /\ \E i, j \in DisputedDeposits(transactions, c) :
               /\ transactions[i].amount > transactions[j].amount
               /\ transactions[j].amount > 0
        /\ accounts[c].held
               = SumOfAmounts(transactions, DisputedDeposits(transactions, c))

----------------------------------------------------------------------------
\* The latest record is a Resolve or Chargeback by the owner of a Deposit
\* under dispute: the record that reaches the test held < amount.
ReachesHeldTest ==
    /\ Processing({"Resolve", "Chargeback"})
    /\ RefersToOwnDeposit
    /\ ReferencedBefore.under_dispute
    /\ ~AccountBefore.locked

\* C20: under sequential processing the insufficient-held branches are
\* unreachable: no Resolve fails with AccountInsufficientHeldFunds and no
\* Chargeback takes its held < amount path (which reports
\* AccountInsufficientAvailableFunds); whenever the test is reached the held
\* balance covers the Deposit's amount and the record succeeds.
C20_HeldBranchesUnreachable ==
    /\ last.result # "AccountInsufficientHeldFunds"
    /\ Processing({"Chargeback"})
       => last.result # "AccountInsufficientAvailableFunds"
    /\ ReachesHeldTest
       => /\ AccountBefore.held >= ReferencedBefore.amount
          /\ last.result = Ok
    /\ \A id \in DOMAIN transactions :
           (transactions[id].kind = "Deposit" /\ transactions[id].under_dispute)
           => get_account(accounts, transactions[id].client_id).held
                  >= transactions[id].amount

\* The held test was passed at its boundary: the held balance was exactly
\* the amount of the Deposit resolved or charged back.
C20_Witness ==
    /\ ReachesHeldTest
    /\ ReferencedBefore.amount > 0
    /\ AccountBefore.held = ReferencedBefore.amount
    /\ AccountAfter.held = 0
    /\ last.result = Ok

----------------------------------------------------------------------------
\* Every call has returned.
AllReturned == \A t \in ThreadId : calls[t].pc = "idle"

\* Threads t and u have each had a Deposit of a positive amount accepted for
\* client c, and these were the only calls made: the prior total of c is zero.
TwoAcceptedDeposits(t, u, c) ==
    /\ t # u
    /\ AllReturned
    /\ started = 2
    /\ calls[t].tx.kind = "Deposit" /\ calls[u].tx.kind = "Deposit"
    /\ calls[t].tx.client_id = c /\ calls[u].tx.client_id = c
    /\ calls[t].tx.amount > 0 /\ calls[u].tx.amount > 0
    /\ calls[t].result = Ok /\ calls[u].result = Ok

\* C18: when process() calls interleave at the granularity of the State
\* methods, an account adjustment is lost only to another call for the same
\* client that held that client's account, read and not yet written back, at
\* the same time: as long as no two such calls have overlapped, every account's
\* total is the sum of the adjustments the calls have stored.  (That such a
\* loss does happen is C18_Witness.)
C18_LossOnlyWithOverlap ==
    ~overlapped
    => \A c \in ClientId : get_account(accounts, c).total = expected[c]

\* Two Deposits of A and B for one client, both accepted, the only calls made,
\* have left a total that is not A + B.
C18_Witness ==
    \E t, u \in ThreadId, c \in ClientId :
        /\ TwoAcceptedDeposits(t, u, c)
        /\ expected[c] = calls[t].tx.amount + calls[u].tx.amount
        /\ accounts[c].total # calls[t].tx.amount + calls[u].tx.amount

----------------------------------------------------------------------------
\* C21: after any sequence of process() calls, every account in the store
\* has available >= 0, held >= 0 and total >= 0.
C21_BalancesNotNegative ==
    \A c \in DOMAIN accounts :
        /\ accounts[c].available >= 0
        /\ accounts[c].held >= 0
        /\ accounts[c].total >= 0

\* An account was debited down to the bound: a Chargeback of a positive
\* Deposit took the whole held balance and total, and a Withdrawal of a
\* positive amount by the same client, which the funds did not cover, had
\* been refused.
C21_Witness ==
    /\ Processing({"Chargeback"})
    /\ last.result = Ok
    /\ RefersToOwnDeposit
    /\ ReferencedBefore.amount > 0
    /\ AccountBefore.held = ReferencedBefore.amount
    /\ AccountAfter.available = 0
    /\ AccountAfter.held = 0
    /\ AccountAfter.total = 0
    /\ \E id \in DOMAIN transactions :
           /\ transactions[id].kind = "Withdrawal"
           /\ transactions[id].client_id = last.tx.client_id
           /\ transactions[id].amount > 0

----------------------------------------------------------------------------
\* C22: the accounts handed to the output, after scaled() has rescaled
\* available, held and total each on its own to 4 fractional digits, still
\* satisfy total = available + held, for every reachable account whose amounts
\* carry more than 4 fractional digits.
C22_ScaledTotalIsSum ==
    \A c \in DOMAIN accounts :
        balances[c].total = balances[c].available + balances[c].held

\* An account with funds available and funds held that both need the fifth
\* fractional digit is written out.
C22_Witness ==
    \E c \in DOMAIN accounts :
        /\ accounts[c].available > 0
        /\ accounts[c].held > 0
        /\ Mantissa(accounts[c].available) % 10 # 0
        /\ Mantissa(accounts[c].held) % 10 # 0

====
